---------------------------- MODULE Spec2Model ----------------------------
(***************************************************************************)
(* A model of the load generator of oshadmon/performance-test:             *)
(*   src/insert_data.py  insert_data (get_conn, release_conn,              *)
(*                       send_request) and the scheduler loop of main.     *)
(*   src/main.py         the variant without threads: main and its own     *)
(*                       insert_data.                                      *)
(* Six specifications share the module:                                    *)
(*   SpecSend  one call of send_request against an endpoint whose answers  *)
(*             are chosen by the environment, with the requests and the    *)
(*             backoff waits logged;                                       *)
(*   Spec      the program: main's scheduler loop, the task it submits     *)
(*             and the sub-tasks of the column-as-table mode;              *)
(*   FairSpec  Spec under fair scheduling of main and of the threads;      *)
(*   SpecPool  several threads calling insert_data concurrently;           *)
(*   SpecPlan  calls of __calculate_row_count, the function that turns     *)
(*             --size into the row ceiling;                                *)
(*   SpecMainPy  the program of src/main.py.                               *)
(***************************************************************************)
EXTENDS Integers, Sequences, FiniteSets, TLC

(***************************************************************************)
(* Bounds of the model.  Time is counted in ticks of 1/TicksPerSec second. *)
(***************************************************************************)
MaxRetries == 3

MaxConns == 2

MaxThreads == 2

MaxColumns == 2

MaxBatch == 2

MaxRows == 3

MaxRunTime == 2

MaxHz == 1

MaxLatency == 1

MaxGap == 2

MaxPoolTables == 1

MaxSizeNum == 20

TicksPerSec == 3

(***************************************************************************)
(* Program constants.                                                      *)
(*   DefaultRetries  the default of send_request's parameter retries       *)
(*   Inf             float('inf'), the row ceiling of --size 0             *)
(***************************************************************************)
DefaultRetries == 3

Inf == -1

(***************************************************************************)
(* The answers of an endpoint to one http.request: an HTTP status, or      *)
(* NetErr when http.request raises instead of returning a response.        *)
(***************************************************************************)
NetErr == 0

Statuses == {200, 299, 404, 500, 503, 599, 600}

Outcomes == Statuses \cup {NetErr}

Is5xx(status) == status # NetErr /\ 500 <= status /\ status < 600

Is2xx(status) == status # NetErr /\ 200 <= status /\ status < 300

\* a changed backoff: the same wait after every attempt
backoffConstant(attempt) == 2

\* line 103 and line 115: time.sleep(2 * attempt)
backoff(attempt) == 2 * attempt

(***************************************************************************)
(* SendAttempt: one iteration of send_request's loop `for attempt in       *)
(* range(1, retries + 1)`, lines 92-115: what the iteration with number    *)
(* `attempt` does when the request ends with `outcome`.                    *)
(*   next = "return"  the call returns (2xx)                               *)
(*   next = "retry"   the loop goes on with attempt + 1                    *)
(*   next = "raise"   the call raises                                      *)
(*   sleep            the argument of time.sleep in this iteration, 0 when *)
(*                    time.sleep is not called                             *)
(* A 5xx sleeps and continues; after the last iteration the loop is left   *)
(* and line 117 raises.  A status outside 2xx raises inside the try block, *)
(* so the handler of line 110 treats it like a network error: it raises    *)
(* on the last attempt and sleeps and goes on otherwise.                   *)
(* SendAttemptNoFinalRaise is SendAttempt without the raise of line 117:   *)
(* the loop is left after the last 5xx and the call returns None.          *)
(***************************************************************************)
SendAttemptNoFinalRaise(attempt, retries, outcome) ==
    IF Is5xx(outcome)
    THEN [sleep |-> backoff(attempt),
          next  |-> IF attempt = retries THEN "return" ELSE "retry"]
    ELSE IF ~Is2xx(outcome)
    THEN IF attempt = retries
         THEN [sleep |-> 0, next |-> "raise"]
         ELSE [sleep |-> backoff(attempt), next |-> "retry"]
    ELSE [sleep |-> 0, next |-> "return"]

\* changed lines 105-106: a status outside 2xx and 5xx is not checked, and
\* the call returns
SendAttemptNoStatusCheck(attempt, retries, outcome) ==
    IF Is5xx(outcome)
    THEN [sleep |-> backoff(attempt),
          next  |-> IF attempt = retries THEN "raise" ELSE "retry"]
    ELSE IF outcome = NetErr
    THEN IF attempt = retries
         THEN [sleep |-> 0, next |-> "raise"]
         ELSE [sleep |-> backoff(attempt), next |-> "retry"]
    ELSE [sleep |-> 0, next |-> "return"]

SendAttempt(attempt, retries, outcome) ==
    IF Is5xx(outcome)
    THEN [sleep |-> backoff(attempt),
          next  |-> IF attempt = retries THEN "raise" ELSE "retry"]
    ELSE IF ~Is2xx(outcome)
    THEN IF attempt = retries
         THEN [sleep |-> 0, next |-> "raise"]
         ELSE [sleep |-> backoff(attempt), next |-> "retry"]
    ELSE [sleep |-> 0, next |-> "return"]

(***************************************************************************)
(* Numbers of the Size Planner.  A size can exceed the integers of the     *)
(* model checker (1 TB is 2^40 bytes), so a natural number is kept as the  *)
(* sequence of its digits in base 2^LimbBits, most significant first and   *)
(* without leading zeros (0 is the empty sequence), and a float as a       *)
(* record [m, e] that stands for m * 2^e.                                  *)
(*   MantissaBits  significant bits of a Python float (IEEE 754 double)    *)
(*   LimbBits      bits of one digit of a number of the model              *)
(*   FractionBits  binary places the model keeps behind the point before   *)
(*                 it rounds to MantissaBits                               *)
(***************************************************************************)
MantissaBits == 53

LimbBits == 15

FractionBits == 5 * LimbBits

Base == 2 ^ LimbBits

Front(v) == SubSeq(v, 1, Len(v) - 1)

Zeros(k) == [i \in 1..k |-> 0]

RECURSIVE Limbs(_)
Limbs(n) == IF n = 0 THEN <<>> ELSE Append(Limbs(n \div Base), n % Base)

RECURSIVE Value(_)
Value(v) == IF v = <<>> THEN 0 ELSE Base * Value(Front(v)) + v[Len(v)]

\* v * m + c for small m >= 1 and c >= 0
RECURSIVE MulAdd(_, _, _)
MulAdd(v, m, c) ==
    IF v = <<>> THEN Limbs(c)
    ELSE LET x == v[Len(v)] * m + c
         IN Append(MulAdd(Front(v), m, x \div Base), x % Base)

\* quotient q and remainder r of v by a small w >= 1
RECURSIVE DivMod(_, _)
DivMod(v, w) ==
    IF v = <<>> THEN [q |-> <<>>, r |-> 0]
    ELSE LET p == DivMod(Front(v), w)
             x == Base * p.r + v[Len(v)]
         IN [q |-> IF p.q = <<>> /\ x < w THEN <<>> ELSE Append(p.q, x \div w),
             r |-> x % w]

\* the number of binary digits of v
BitLength(v) ==
    IF v = <<>> THEN 0
    ELSE LimbBits * (Len(v) - 1)
           + (CHOOSE k \in 1..LimbBits : 2 ^ (k - 1) <= v[1] /\ v[1] < 2 ^ k)

\* v * 2^k
ShiftLeft(v, k) ==
    IF v = <<>> THEN <<>>
    ELSE MulAdd(v, 2 ^ (k % LimbBits), 0) \o Zeros(k \div LimbBits)

\* floor(v / 2^k)
ShiftRight(v, k) ==
    DivMod(SubSeq(v, 1, Len(v) - (k \div LimbBits)), 2 ^ (k % LimbBits)).q

\* v is a multiple of 2^k
LowBitsZero(v, k) ==
    /\ \A i \in (Len(v) - (k \div LimbBits) + 1)..Len(v) : i >= 1 => v[i] = 0
    /\ DivMod(SubSeq(v, 1, Len(v) - (k \div LimbBits)), 2 ^ (k % LimbBits)).r = 0

IsOdd(v) == v # <<>> /\ v[Len(v)] % 2 = 1

\* a < b
Less(a, b) ==
    \/ Len(a) < Len(b)
    \/ /\ Len(a) = Len(b)
       /\ \E i \in 1..Len(a) :
            /\ a[i] < b[i]
            /\ \A j \in 1..(i - 1) : a[j] = b[j]

\* 10^k, for a small k
RECURSIVE Pow10(_)
Pow10(k) == IF k = 0 THEN 1 ELSE 10 * Pow10(k - 1)

\* The rounding of float arithmetic: v, followed by a tail that is not zero
\* when sticky holds, rounded to MantissaBits significant bits, to the nearest
\* and to the even one of two nearest
RoundToFloat(v, sticky) ==
    IF BitLength(v) <= MantissaBits THEN v
    ELSE LET k == BitLength(v) - MantissaBits
             h == ShiftRight(v, k - 1)
             m == ShiftRight(h, 1)
             tail == sticky \/ ~LowBitsZero(v, k - 1)
             up == IsOdd(h) /\ (tail \/ IsOdd(m))
         IN ShiftLeft(IF up THEN MulAdd(m, 1, 1) ELSE m, k)

(***************************************************************************)
(* Strings are sequences of characters.  The characters of the model: the  *)
(* digits, some letters in both cases, the point and the blank.            *)
(***************************************************************************)
Digits == <<"0", "1", "2", "3", "4", "5", "6", "7", "8", "9">>

UpperLetters == <<"B", "G", "K", "M", "T", "X">>

LowerLetters == <<"b", "g", "k", "m", "t", "x">>

IsDigit(c) == \E i \in 1..Len(Digits) : Digits[i] = c

IsLetter(c) ==
    \E i \in 1..Len(UpperLetters) : UpperLetters[i] = c \/ LowerLetters[i] = c

DigitValue(c) == CHOOSE d \in 0..9 : Digits[d + 1] = c

\* str.upper, str.isdigit, str.strip
upper(s) ==
    [i \in 1..Len(s) |->
       IF \E j \in 1..Len(LowerLetters) : LowerLetters[j] = s[i]
       THEN UpperLetters[CHOOSE j \in 1..Len(LowerLetters) : LowerLetters[j] = s[i]]
       ELSE s[i]]

isdigit(s) == Len(s) > 0 /\ \A i \in 1..Len(s) : IsDigit(s[i])

strip(s) ==
    LET kept == {i \in 1..Len(s) : s[i] # " "}
    IN IF kept = {} THEN <<>>
       ELSE SubSeq(s, CHOOSE i \in kept : \A j \in kept : i <= j,
                      CHOOSE i \in kept : \A j \in kept : j <= i)

\* the length of the longest run of digits of s that starts at position from
RECURSIVE DigitRun(_, _)
DigitRun(s, from) ==
    IF from <= Len(s) /\ IsDigit(s[from]) THEN 1 + DigitRun(s, from + 1) ELSE 0

\* line 37: re.fullmatch(r"(\d+(?:\.\d+)?)([A-Za-z]+)", s).  The digits before
\* the point, the digits behind it and the letters, when s matches.
fullmatch(s) ==
    LET n1 == DigitRun(s, 1)
        dot == n1 + 1 <= Len(s) /\ s[n1 + 1] = "."
        n2 == IF dot THEN DigitRun(s, n1 + 2) ELSE 0
        rest == IF dot THEN n1 + n2 + 2 ELSE n1 + 1
        ok == /\ n1 >= 1
              /\ (dot => n2 >= 1)
              /\ rest <= Len(s)
              /\ \A i \in rest..Len(s) : IsLetter(s[i])
    IN [ok    |-> ok,
        whole |-> SubSeq(s, 1, n1),
        frac  |-> IF dot THEN SubSeq(s, n1 + 2, n1 + 1 + n2) ELSE <<>>,
        unit  |-> SubSeq(s, rest, Len(s))]

\* int(s) for a string of digits
RECURSIVE int(_)
int(s) == IF s = <<>> THEN <<>>
          ELSE MulAdd(int(Front(s)), 10, DigitValue(s[Len(s)]))

\* line 41: float(match.group(1)), the float nearest to the decimal number
\* whole.frac
float(whole, frac) ==
    LET d == DivMod(ShiftLeft(int(whole \o frac), FractionBits), Pow10(Len(frac)))
    IN [m |-> RoundToFloat(d.q, d.r # 0), e |-> 0 - FractionBits]

\* math.floor of a float that is not negative
floor(x) == IF x.e >= 0 THEN ShiftLeft(x.m, x.e) ELSE ShiftRight(x.m, 0 - x.e)

\* a changed //: the remainder of the division instead of its quotient
floordivRemainder(x, w) == Limbs(DivMod(floor(x), w).r)

\* line 58: x // w for a float x >= 0 and a small integer w >= 1, as CPython
\* computes it: mod = fmod(x, w) is exact, x - mod and (x - mod) / w are
\* rounded, and the floor of the quotient is raised by one when the quotient
\* lies more than one half above it.  The result is a whole number.
floordiv(x, w) ==
    LET q    == DivMod(floor(x), w).q
        diff == RoundToFloat(MulAdd(q, w, 0), FALSE)
        d    == DivMod(ShiftLeft(diff, FractionBits), w)
        div  == RoundToFloat(d.q, d.r # 0)
        fl   == ShiftRight(div, FractionBits)
        over == /\ IsOdd(ShiftRight(div, FractionBits - 1))
                /\ ~LowBitsZero(div, FractionBits - 1)
    IN IF over THEN MulAdd(fl, 1, 1) ELSE fl

\* lines 44-50: the multipliers are powers of two, kept as their exponents
size_multiplier ==
    (<<"B">> :> 0) @@ (<<"K", "B">> :> 10) @@ (<<"M", "B">> :> 20)
      @@ (<<"G", "B">> :> 30) @@ (<<"T", "B">> :> 40)

(***************************************************************************)
(* __calculate_row_count(num_columns, size_str), lines 25-58, for a string *)
(* size_str.  The result is the pair of the column names, column_1 ..      *)
(* column_<num_columns>, and the row ceiling; or ValueError when the       *)
(* function raises (lines 39 and 53).                                      *)
(***************************************************************************)
ValueError == <<"ValueError">>

Raised(result) == Len(result) = 1

column_names(num_columns) == [i \in 1..num_columns |-> <<"column", i>>]

\* a changed line 52: a unit that is not known counts as bytes
__calculate_row_countAnyUnit(num_columns, size_str) ==
    IF isdigit(size_str) THEN <<column_names(num_columns), int(size_str)>>
    ELSE LET match == fullmatch(strip(size_str))
             size_unit == upper(match.unit)
             row_size_bytes == num_columns * 8 + 8
         IN IF ~match.ok THEN ValueError
            ELSE LET size_num == float(match.whole, match.frac)
                     total_bytes == [size_num EXCEPT
                                       !.e = @ + IF size_unit \in DOMAIN size_multiplier
                                                 THEN size_multiplier[size_unit]
                                                 ELSE 0]
                 IN <<column_names(num_columns),
                      floordiv(total_bytes, row_size_bytes)>>

__calculate_row_count(num_columns, size_str) ==
    IF isdigit(size_str) THEN <<column_names(num_columns), int(size_str)>>
    ELSE LET match == fullmatch(strip(size_str))
             size_unit == upper(match.unit)
             row_size_bytes == num_columns * 8 + 8
         IN IF ~match.ok THEN ValueError
            ELSE IF size_unit \notin DOMAIN size_multiplier THEN ValueError
            ELSE LET size_num == float(match.whole, match.frac)
                     total_bytes == [size_num EXCEPT
                                       !.e = @ + size_multiplier[size_unit]]
                 IN <<column_names(num_columns),
                      floordiv(total_bytes, row_size_bytes)>>

(***************************************************************************)
(* State of the program.                                                   *)
(*   CONNS           the global dict: endpoint -> busy flag, empty until   *)
(*                   line 198                                              *)
(*   args            the parsed command line; conn is the number of the    *)
(*                   connections of the list args.conn                     *)
(*   threads         max_workers of main's executor                        *)
(*   total_rows      the row ceiling, Inf for --size 0                     *)
(*   total_inserted  main's counter                                        *)
(*   batch_size      main's local of the current iteration                 *)
(*   main_pc         main's position: "start" (196), "top" (231),          *)
(*                   "submit" (245/249), "count" (247/251), "wait" (255),  *)
(*                   "pace" (262), "done" (266, the summary),              *)
(*                   "invalid_size" (the ValueError of line 204 left       *)
(*                   main), "crashed" (an exception left main's loop);     *)
(*                   "harness" when main does not run                      *)
(*   clock           time.time() - start_time in ticks, kept up to         *)
(*                   args.run_time, which is all the test of 232 reads     *)
(*   iter_clock      time.time() - iteration_start in ticks, kept up to    *)
(*                   one second, which is all the test of 262 reads, and   *)
(*                   only when hz > 0                                      *)
(*   call            per worker thread, the call of insert_data it runs    *)
(*   subs            per worker thread, the send_request tasks of the      *)
(*                   executor of line 131, one per table                   *)
(* History variables, read by the properties only:                         *)
(*   owned           per thread, the endpoints its call marked busy and    *)
(*                   has not cleared since                                 *)
(*   tally           per thread, the answers its call got: ok the 2xx      *)
(*                   answers and, for a list payload, s5 the 5xx answers   *)
(*                   (2 stands for two or more) and bad whether an answer  *)
(*                   was neither (a network error included); for a mapping *)
(*                   of tables, tried the tables a request was sent for    *)
(*                   and lost whether the delivery of a table has ended    *)
(*                   without a 2xx answer                                  *)
(*   received        rows carried by the requests answered 2xx             *)
(*   all2xx          every request so far was answered 2xx                 *)
(*   completed_rows  rows of the batches whose call returned normally      *)
(***************************************************************************)
VARIABLES CONNS, args, threads, total_rows, total_inserted, batch_size,
          main_pc, clock, iter_clock, call, subs,
          owned, tally, received, all2xx, completed_rows

VARIABLES sr_retries, sr_attempt, sr_state, sr_requests, sr_waits

\* the calls of __calculate_row_count of SpecPlan: num_columns, the sizes
\* to pass and the results of the calls made so far
VARIABLES plan_columns, plan_sizes, plan_results

plan_vars == <<plan_columns, plan_sizes, plan_results>>

sr_vars == <<sr_retries, sr_attempt, sr_state, sr_requests, sr_waits>>

main_vars == <<args, threads, total_rows, total_inserted, batch_size, main_pc>>

time_vars == <<clock, iter_clock>>

hist_vars == <<owned, tally, received, all2xx, completed_rows>>

prog_vars == <<CONNS, main_vars, time_vars, call, subs, hist_vars>>

vars == <<prog_vars, sr_vars, plan_vars>>

Max(a, b) == IF a > b THEN a ELSE b

Min(a, b) == IF a < b THEN a ELSE b

Threads == 1..Max(MaxThreads, MaxConns)

Tables == 1..MaxColumns

Endpoints == DOMAIN CONNS

\* the local response of main.py's insert_data before its first assignment
Unbound == 0 - 1

IdleCall == [pc |-> "idle", site |-> "none", dict |-> FALSE, tables |-> 0,
             rows |-> 0, conn |-> 0, candidate |-> 0, idx |-> 0,
             attempt |-> 0, raised |-> FALSE, response |-> Unbound]

NoSub == [state |-> "none", attempt |-> 0, conn |-> 0]

NoTally == [ok |-> 0, s5 |-> 0, bad |-> FALSE, tried |-> {}, lost |-> FALSE]


(***************************************************************************)
(* Time.  d ticks pass: both clocks move, each kept only as far as the     *)
(* program can tell values apart (see the variables).                      *)
(***************************************************************************)
Elapse(d) ==
    /\ clock' = IF args.run_time = 0 THEN clock
                ELSE Min(clock + d, args.run_time)
    /\ iter_clock' = IF args.hz = 0 THEN iter_clock
                     ELSE Min(iter_clock + d, TicksPerSec)

(***************************************************************************)
(* History of one answered request of thread t that carried n rows, for    *)
(* table i of a mapping of tables; gave_up: the delivery of the table ends *)
(* with this answer, which is not a 2xx.                                   *)
(***************************************************************************)
Tallied(tl, outcome, dict, i, gave_up) ==
    [ok    |-> IF Is2xx(outcome) THEN tl.ok + 1 ELSE tl.ok,
     s5    |-> IF Is5xx(outcome) /\ ~dict THEN Min(tl.s5 + 1, 2) ELSE tl.s5,
     bad   |-> tl.bad \/ (~Is2xx(outcome) /\ ~Is5xx(outcome) /\ ~dict),
     tried |-> IF dict THEN tl.tried \cup {i} ELSE tl.tried,
     lost  |-> tl.lost \/ (dict /\ gave_up)]

Answered(t, outcome, n, i, gave_up) ==
    /\ tally' = [tally EXCEPT ![t] =
                   Tallied(@, outcome, call[t].dict, i, gave_up)]
    /\ received' = IF Is2xx(outcome) THEN received + n ELSE received
    /\ all2xx' = (all2xx /\ Is2xx(outcome))

(***************************************************************************)
(* insert_data, lines 67-156, run by thread t.  Positions of call[t].pc:   *)
(*   gc_pick, gc_check, gc_set  inside get_conn, called from call[t].site: *)
(*                "first" (119), "sub" (134) or "second" (141)             *)
(*   p1_send      send_request of line 123 or 125, at iteration attempt;   *)
(*                idx is the table of the loop of 122                      *)
(*   p1_release   the finally block of 126                                 *)
(*   p2_request   the request of 145                                       *)
(*   p2_release   the finally block of 155                                 *)
(*   p2_join      the loop of 136 and the exit of the with block of 131    *)
(*   done         the call returned                                        *)
(*   failed       the call raised because a request failed                 *)
(*   error        the call raised the ValueError of line 131               *)
(* The locals conn, candidate, idx and attempt are 0 where the code does   *)
(* not read them again.                                                    *)
(***************************************************************************)
NewCall(dict, tables, rows) ==
    [IdleCall EXCEPT !.pc = "gc_pick", !.site = "first", !.dict = dict,
                     !.tables = tables, !.rows = rows]

\* line 79: candidate = random.choice(list(CONNS.keys()))
get_conn_pick(t) ==
    /\ call[t].pc = "gc_pick"
    /\ \E c \in Endpoints :
         call' = [call EXCEPT ![t].candidate = c, ![t].pc = "gc_check"]
    /\ UNCHANGED <<CONNS, main_vars, time_vars, subs, hist_vars,
                   sr_vars, plan_vars>>

\* line 80: the read of the flag; a busy candidate leads back to line 78
get_conn_check(t) ==
    /\ call[t].pc = "gc_check"
    /\ call' = [call EXCEPT ![t].pc =
                  IF CONNS[call[t].candidate] THEN "gc_pick" ELSE "gc_set"]
    /\ UNCHANGED <<CONNS, main_vars, time_vars, subs, hist_vars,
                   sr_vars, plan_vars>>

\* lines 81-83: the write of the flag and the return, then the statement
\* that follows the call: 120-125, 135 (executor.submit) or 142-144
get_conn_set(t) ==
    /\ call[t].pc = "gc_set"
    /\ LET c == call[t].candidate
           k == call[t].idx
       IN
         /\ CONNS' = [CONNS EXCEPT ![c] = TRUE]
         /\ owned' = [owned EXCEPT ![t] = @ \cup {c}]
         /\ CASE call[t].site = "first" ->
                   /\ call' = [call EXCEPT ![t].conn = c, ![t].idx = 1,
                                 ![t].attempt = 1, ![t].candidate = 0,
                                 ![t].pc = IF call[t].dict /\ call[t].tables = 0
                                           THEN "p1_release" ELSE "p1_send"]
                   /\ UNCHANGED subs
              [] call[t].site = "second" ->
                   /\ call' = [call EXCEPT ![t].conn = c, ![t].candidate = 0,
                                 ![t].pc = "p2_request"]
                   /\ UNCHANGED subs
              [] call[t].site = "sub" ->
                   /\ subs' = [subs EXCEPT ![t][k] =
                                 [state |-> "try", attempt |-> 1, conn |-> c]]
                   /\ call' = [call EXCEPT ![t].candidate = 0,
                                 ![t].idx = IF k < call[t].tables THEN k + 1 ELSE 0,
                                 ![t].pc = IF k < call[t].tables
                                           THEN "gc_pick" ELSE "p2_join"]
    /\ UNCHANGED <<main_vars, time_vars, tally, received, all2xx,
                   completed_rows, sr_vars, plan_vars>>

\* changed lines 85-86: the endpoint is taken out of the dict
release_connRemoves(conns, c) == [e \in (DOMAIN conns) \ {c} |-> conns[e]]

\* lines 85-86
release_conn(conns, c) == [conns EXCEPT ![c] = FALSE]

\* lines 120-125: one iteration of send_request over the first connection
first_send(t) ==
    /\ call[t].pc = "p1_send"
    /\ \E outcome \in Outcomes, d \in 1..MaxLatency :
         LET r == SendAttempt(call[t].attempt, DefaultRetries, outcome) IN
           /\ call' = [call EXCEPT ![t] =
                CASE r.next = "retry" -> [@ EXCEPT !.attempt = @ + 1]
                  [] r.next = "raise" ->
                       [@ EXCEPT !.raised = TRUE, !.pc = "p1_release",
                                 !.attempt = 0, !.idx = 0]
                  [] OTHER ->
                       IF @.dict /\ @.idx < @.tables
                       THEN [@ EXCEPT !.idx = @ + 1, !.attempt = 1]
                       ELSE [@ EXCEPT !.pc = "p1_release",
                                      !.attempt = 0, !.idx = 0]]
           /\ Elapse(d + r.sleep * TicksPerSec)
           /\ Answered(t, outcome, call[t].rows, call[t].idx, r.next = "raise")
    /\ UNCHANGED <<CONNS, main_vars, subs, owned, completed_rows,
                   sr_vars, plan_vars>>

\* lines 126-127, then the branch of 129: an exception of the try block
\* leaves the call; ThreadPoolExecutor(max_workers=0) raises ValueError
first_release(t) ==
    /\ call[t].pc = "p1_release"
    /\ CONNS' = release_conn(CONNS, call[t].conn)
    /\ owned' = [owned EXCEPT ![t] = @ \ {call[t].conn}]
    /\ call' = [call EXCEPT ![t] =
         IF @.raised
         THEN [@ EXCEPT !.pc = "failed", !.conn = 0, !.idx = 0, !.attempt = 0]
         ELSE IF @.dict /\ @.tables = 0
         THEN [@ EXCEPT !.raised = TRUE, !.pc = "error", !.conn = 0,
                        !.idx = 0, !.attempt = 0]
         ELSE [@ EXCEPT !.pc = "gc_pick", !.conn = 0, !.attempt = 0,
                        !.idx = IF call[t].dict THEN 1 ELSE 0,
                        !.site = IF call[t].dict THEN "sub" ELSE "second"]]
    /\ UNCHANGED <<main_vars, time_vars, subs, tally, received, all2xx,
                   completed_rows, sr_vars, plan_vars>>

\* lines 145-154: the second request of a list payload, sent once
second_request(t) ==
    /\ call[t].pc = "p2_request"
    /\ \E outcome \in Outcomes, d \in 1..MaxLatency :
         /\ call' = [call EXCEPT ![t].raised = ~Is2xx(outcome),
                       ![t].pc = "p2_release"]
         /\ Elapse(d)
         /\ Answered(t, outcome, call[t].rows, 0, ~Is2xx(outcome))
    /\ UNCHANGED <<CONNS, main_vars, subs, owned, completed_rows,
                   sr_vars, plan_vars>>

\* lines 155-156, then the return or the exception of 154
second_release(t) ==
    /\ call[t].pc = "p2_release"
    /\ CONNS' = release_conn(CONNS, call[t].conn)
    /\ owned' = [owned EXCEPT ![t] = @ \ {call[t].conn}]
    /\ call' = [call EXCEPT ![t].conn = 0,
                  ![t].pc = IF call[t].raised THEN "failed" ELSE "done"]
    /\ completed_rows' = IF call[t].raised THEN completed_rows
                         ELSE completed_rows + call[t].rows
    /\ UNCHANGED <<main_vars, time_vars, subs, tally, received, all2xx,
                   sr_vars, plan_vars>>

\* line 135: one iteration of send_request in the task of table i
sub_send(t, i) ==
    /\ subs[t][i].state = "try"
    /\ \E outcome \in Outcomes, d \in 0..MaxLatency :
         LET r == SendAttempt(subs[t][i].attempt, DefaultRetries, outcome) IN
           /\ subs' = [subs EXCEPT ![t][i] =
                CASE r.next = "retry" -> [@ EXCEPT !.attempt = @ + 1]
                  [] r.next = "raise" -> [@ EXCEPT !.state = "raised"]
                  [] OTHER            -> [@ EXCEPT !.state = "returned"]]
           /\ Elapse(d + r.sleep * TicksPerSec)
           /\ Answered(t, outcome, call[t].rows, i, r.next = "raise")
    /\ UNCHANGED <<CONNS, main_vars, call, owned, completed_rows,
                   sr_vars, plan_vars>>

\* lines 136-138 and the exit of the with block: every task has ended, and
\* future.result() raises when one of them raised
join(t) ==
    /\ call[t].pc = "p2_join"
    /\ \A i \in 1..call[t].tables : subs[t][i].state \in {"returned", "raised"}
    /\ LET bad == \E i \in 1..call[t].tables : subs[t][i].state = "raised" IN
         /\ call' = [call EXCEPT ![t].raised = bad,
                       ![t].pc = IF bad THEN "failed" ELSE "done"]
         /\ completed_rows' = IF bad THEN completed_rows
                              ELSE completed_rows + call[t].rows
    /\ subs' = [subs EXCEPT ![t] = [i \in Tables |-> NoSub]]
    /\ UNCHANGED <<CONNS, main_vars, time_vars, owned, tally, received,
                   all2xx, sr_vars, plan_vars>>

\* the steps of the thread that runs the call
caller(t) ==
    \/ get_conn_pick(t)
    \/ get_conn_check(t)
    \/ get_conn_set(t)
    \/ first_send(t)
    \/ first_release(t)
    \/ second_request(t)
    \/ second_release(t)
    \/ join(t)

insert_data(t) ==
    \/ caller(t)
    \/ \E i \in Tables : sub_send(t, i)

(***************************************************************************)
(* main, lines 198-266.                                                    *)
(***************************************************************************)
\* a changed line 202: --max-threads is not looked at
worker_countIgnoreMax(max_threads, n_conns) == n_conns

\* line 202
worker_count(max_threads, n_conns) ==
    IF n_conns > max_threads /\ max_threads > 0 THEN max_threads ELSE n_conns

\* line 232: the test that ends the loop
stop_condition ==
    \/ (0 < args.run_time /\ args.run_time <= clock)
    \/ (args.run_time = 0 /\ total_rows # Inf /\ total_inserted >= total_rows)

\* a changed line 235: the batch is not cut to the rows below the ceiling
next_batch_sizeNoCap == args.batch_size

\* line 235
next_batch_size ==
    IF total_rows # Inf THEN Min(args.batch_size, total_rows - total_inserted)
                        ELSE args.batch_size

\* lines 231-236: the top of an iteration
LoopTop ==
    /\ main_pc = "top"
    /\ iter_clock' = 0
    /\ IF stop_condition
       THEN main_pc' = "done" /\ UNCHANGED batch_size
       ELSE main_pc' = "submit" /\ batch_size' = next_batch_size
    /\ UNCHANGED <<CONNS, args, threads, total_rows, total_inserted, clock,
                   call, subs, hist_vars, sr_vars, plan_vars>>

\* changed lines 245 and 249: one task for every worker of the executor
SubmitPerWorker ==
    /\ main_pc = "submit"
    /\ \A t \in 1..threads : call[t].pc = "idle"
    /\ call' = [t \in Threads |->
                  IF t <= threads
                  THEN NewCall(args.column_as_table,
                               IF args.column_as_table /\ batch_size > 0
                               THEN args.num_columns ELSE 0,
                               batch_size)
                  ELSE call[t]]
    /\ tally' = [t \in Threads |-> NoTally]
    /\ owned' = [t \in Threads |-> {}]
    /\ main_pc' = "count"
    /\ UNCHANGED <<CONNS, args, threads, total_rows, total_inserted, batch_size,
                   time_vars, subs, received, all2xx, completed_rows,
                   sr_vars, plan_vars>>

\* lines 237-246 and 249-250: the task goes to an idle worker of the
\* executor (the workers are alike: the first idle one stands for any).  In column-as-table mode the payload has one table per column
\* when the batch has rows, and none when it has not.
Submit ==
    /\ main_pc = "submit"
    /\ \E t \in 1..threads :
         /\ call[t].pc = "idle"
         /\ \A u \in 1..(t - 1) : call[u].pc # "idle"
         /\ call' = [call EXCEPT ![t] =
                       NewCall(args.column_as_table,
                               IF args.column_as_table /\ batch_size > 0
                               THEN args.num_columns ELSE 0,
                               batch_size)]
         /\ tally' = [tally EXCEPT ![t] = NoTally]
         /\ owned' = [owned EXCEPT ![t] = {}]
    /\ main_pc' = "count"
    /\ UNCHANGED <<CONNS, args, threads, total_rows, total_inserted, batch_size,
                   time_vars, subs, received, all2xx, completed_rows,
                   sr_vars, plan_vars>>

\* lines 247 and 251
Count ==
    /\ main_pc = "count"
    /\ total_inserted' = total_inserted + batch_size
    /\ main_pc' = "wait"
    /\ UNCHANGED <<CONNS, args, threads, total_rows, batch_size, time_vars,
                   call, subs, hist_vars, sr_vars, plan_vars>>

\* changed lines 255-256: main does not wait for the futures
WaitNoJoin ==
    /\ main_pc = "wait"
    /\ main_pc' = IF \E t \in Threads : call[t].pc \in {"failed", "error"}
                  THEN "crashed" ELSE "pace"
    /\ call' = [t \in Threads |->
                  IF call[t].pc \in {"done", "failed", "error"}
                  THEN IdleCall ELSE call[t]]
    /\ UNCHANGED <<CONNS, args, threads, total_rows, total_inserted, batch_size,
                   time_vars, subs, hist_vars, sr_vars, plan_vars>>

\* lines 255-256: every future of the list has ended; future.result() raises
\* the exception of a failed task, which leaves main (the handler of 257-260
\* is commented out).  The futures of earlier iterations stay in the list
\* and all returned None.
Wait ==
    /\ main_pc = "wait"
    /\ \A t \in Threads : call[t].pc \in {"idle", "done", "failed", "error"}
    /\ main_pc' = IF \E t \in Threads : call[t].pc \in {"failed", "error"}
                  THEN "crashed" ELSE "pace"
    /\ call' = [t \in Threads |-> IdleCall]
    /\ UNCHANGED <<CONNS, args, threads, total_rows, total_inserted, batch_size,
                   time_vars, subs, hist_vars, sr_vars, plan_vars>>

\* lines 262-263: the clock is read once for the test and once more, d ticks
\* later, for the length of the sleep; time.sleep raises ValueError when the
\* length is negative
Pace ==
    /\ main_pc = "pace"
    /\ IF args.hz > 0 /\ iter_clock < TicksPerSec
       THEN \E d \in 0..MaxGap :
              IF iter_clock + d > TicksPerSec
              THEN main_pc' = "crashed" /\ Elapse(d)
              ELSE main_pc' = "top" /\ Elapse(TicksPerSec - iter_clock)
       ELSE main_pc' = "top" /\ UNCHANGED time_vars
    /\ UNCHANGED <<CONNS, args, threads, total_rows, total_inserted, batch_size,
                   call, subs, hist_vars, sr_vars, plan_vars>>

PlanIdle ==
    /\ plan_columns = 0
    /\ plan_sizes = <<>>
    /\ plan_results = <<>>

SendIdle ==
    /\ sr_retries = 0
    /\ sr_attempt = 0
    /\ sr_state = "none"
    /\ sr_requests = <<>>
    /\ sr_waits = <<>>

(***************************************************************************)
(* The command line of a run.                                              *)
(*   RunSizes  the values of --size: 0 (no ceiling), the numbers up to     *)
(*             MaxRows, a size with a unit (16B: one row of one column)    *)
(*             and sizes that __calculate_row_count rejects                *)
(* A run with --size 0 and no --run-time never ends and its counter grows  *)
(* without bound: it is left out.                                          *)
(***************************************************************************)
\* the decimal digits of a small number
RECURSIVE str(_)
str(n) == IF n < 10 THEN <<Digits[n + 1]>>
          ELSE Append(str(n \div 10), Digits[(n % 10) + 1])

\* sizes without digits and sizes with misplaced points and blanks
Malformed ==
    {<<>>, <<" ">>, <<"M", "B">>, <<".", "5", "K", "B">>, <<"1", ".", "K", "B">>,
     <<" ", "5">>, <<"1", "0", " ", "M", "B">>, <<"1", ".", "5">>}

RunSizes ==
    {str(n) : n \in 0..MaxRows}
      \cup {<<"1", "6", "B">>, <<"1", "X", "B">>, <<"1", "0", "X", "B">>}
      \cup Malformed

Init ==
    /\ args \in [conn : 1..MaxConns, max_threads : 0..MaxThreads,
                 num_columns : 1..MaxColumns, batch_size : 0..MaxBatch,
                 size : RunSizes, hz : 0..MaxHz, run_time : {0, MaxRunTime},
                 column_as_table : BOOLEAN]
    /\ (args.size = <<"0">> => args.run_time > 0)
    /\ CONNS = <<>>
    /\ threads = 0
    /\ total_rows = 0
    /\ total_inserted = 0
    /\ batch_size = 0
    /\ main_pc = "start"
    /\ clock = 0
    /\ iter_clock = 0
    /\ call = [t \in Threads |-> IdleCall]
    /\ subs = [t \in Threads |-> [i \in Tables |-> NoSub]]
    /\ owned = [t \in Threads |-> {}]
    /\ tally = [t \in Threads |-> NoTally]
    /\ received = 0
    /\ all2xx = TRUE
    /\ completed_rows = 0
    /\ SendIdle
    /\ PlanIdle

\* lines 204-206: the results of __calculate_row_count for the arguments a
\* run can start with, computed once
row_plan ==
    [num_columns \in 1..MaxColumns, size \in RunSizes \ {<<"0">>} |->
        __calculate_row_count(num_columns, size)]

\* lines 198-225: the endpoints, the number of workers and the row ceiling;
\* the ValueError of __calculate_row_count leaves main
Startup ==
    /\ main_pc = "start"
    /\ CONNS' = [e \in 1..args.conn |-> FALSE]
    /\ threads' = worker_count(args.max_threads, args.conn)
    /\ IF args.size # <<"0">>
       THEN LET result == row_plan[args.num_columns, args.size]
            IN IF Raised(result)
               THEN main_pc' = "invalid_size" /\ UNCHANGED total_rows
               ELSE main_pc' = "top" /\ total_rows' = Value(result[2])
       ELSE main_pc' = "top" /\ total_rows' = Inf
    /\ UNCHANGED <<args, total_inserted, batch_size, time_vars, call, subs,
                   hist_vars, sr_vars, plan_vars>>

Next ==
    \/ Startup
    \/ LoopTop
    \/ Submit
    \/ Count
    \/ Wait
    \/ Pace
    \/ \E t \in Threads : insert_data(t)

Spec == Init /\ [][Next]_vars

(***************************************************************************)
(* FairSpec: the program under a fair scheduler.  Every thread that can    *)
(* take a step takes one eventually (main, each worker, each task of the   *)
(* executor of line 131), so every request ends and every sleep returns;   *)
(* and random.choice does not avoid a free endpoint for ever: a            *)
(* get_conn that can pick a free endpoint again and again picks one.       *)
(***************************************************************************)
main_step == Startup \/ LoopTop \/ Submit \/ Count \/ Wait \/ Pace

get_conn_pick_free(t) ==
    get_conn_pick(t) /\ ~CONNS[call'[t].candidate]

Fairness ==
    /\ WF_vars(main_step)
    /\ \A t \in Threads : WF_vars(caller(t))
    /\ \A t \in Threads : SF_vars(get_conn_pick_free(t))
    /\ \A t \in Threads : \A i \in Tables : WF_vars(sub_send(t, i))

FairSpec == Init /\ [][Next]_vars /\ Fairness

(***************************************************************************)
(* SpecPool: the threads 1..threads each call insert_data once, at any     *)
(* time, with a list payload or a mapping of tables; main does not run.    *)
(***************************************************************************)
HarnessArgs == [conn |-> 1, max_threads |-> 0, num_columns |-> 1,
                batch_size |-> 1, size |-> <<"0">>, hz |-> 0, run_time |-> 0,
                column_as_table |-> FALSE]

PoolInit ==
    /\ \E n \in 1..MaxConns :
         /\ CONNS = [e \in 1..n |-> FALSE]
         /\ args = [HarnessArgs EXCEPT !.conn = n]
    /\ threads \in 1..MaxThreads
    /\ total_rows = 0
    /\ total_inserted = 0
    /\ batch_size = 0
    /\ main_pc = "harness"
    /\ clock = 0
    /\ iter_clock = 0
    /\ call = [t \in Threads |-> IdleCall]
    /\ subs = [t \in Threads |-> [i \in Tables |-> NoSub]]
    /\ owned = [t \in Threads |-> {}]
    /\ tally = [t \in Threads |-> NoTally]
    /\ received = 0
    /\ all2xx = TRUE
    /\ completed_rows = 0
    /\ SendIdle
    /\ PlanIdle

PoolCall(t) ==
    /\ main_pc = "harness"
    /\ call[t].pc = "idle"
    /\ \E dict \in BOOLEAN, k \in 0..Min(MaxPoolTables, MaxColumns) :
         /\ (~dict => k = 0)
         /\ call' = [call EXCEPT ![t] = NewCall(dict, k, 1)]
    /\ UNCHANGED <<CONNS, main_vars, time_vars, subs, hist_vars,
                   sr_vars, plan_vars>>

PoolNext ==
    \/ \E t \in 1..threads : PoolCall(t)
    \/ \E t \in Threads : insert_data(t)

SpecPool == PoolInit /\ [][PoolNext]_vars

(***************************************************************************)
(* SpecSend: one call of send_request(conn, table_name, data, retries),    *)
(* lines 88-117, alone.                                                    *)
(*   sr_retries   the parameter retries                                    *)
(*   sr_attempt   the loop variable attempt                                *)
(*   sr_state     "try" while the loop runs, then "returned" or "raised"   *)
(*   sr_requests  the outcomes of the requests issued so far               *)
(*   sr_waits     the arguments of the calls of time.sleep so far          *)
(***************************************************************************)
SendInit ==
    /\ sr_retries \in 0..MaxRetries
    /\ sr_attempt = 1
    /\ sr_state = "try"
    /\ sr_requests = <<>>
    /\ sr_waits = <<>>
    /\ CONNS = [e \in 1..1 |-> FALSE]
    /\ threads = 1
    /\ args = HarnessArgs
    /\ total_rows = 0
    /\ total_inserted = 0
    /\ batch_size = 0
    /\ main_pc = "harness"
    /\ clock = 0
    /\ iter_clock = 0
    /\ call = [t \in Threads |-> IdleCall]
    /\ subs = [t \in Threads |-> [i \in Tables |-> NoSub]]
    /\ owned = [t \in Threads |-> {}]
    /\ tally = [t \in Threads |-> NoTally]
    /\ received = 0
    /\ all2xx = TRUE
    /\ completed_rows = 0
    /\ PlanIdle

\* range(1, retries + 1) is empty: the loop body never runs and line 117 raises
SendRangeEmpty ==
    /\ sr_state = "try"
    /\ sr_attempt > sr_retries
    /\ sr_state' = "raised"
    /\ UNCHANGED <<sr_retries, sr_attempt, sr_requests, sr_waits, prog_vars, plan_vars>>

\* lines 93-115: one iteration, the request, the handling of its outcome and
\* the sleep
SendIteration ==
    /\ sr_state = "try"
    /\ sr_attempt <= sr_retries
    /\ \E outcome \in Outcomes :
         LET r == SendAttempt(sr_attempt, sr_retries, outcome) IN
           /\ sr_requests' = Append(sr_requests, outcome)
           /\ sr_waits' = IF r.sleep > 0 THEN Append(sr_waits, r.sleep)
                                         ELSE sr_waits
           /\ sr_state' = CASE r.next = "return" -> "returned"
                            [] r.next = "raise"  -> "raised"
                            [] OTHER             -> "try"
           /\ sr_attempt' = IF r.next = "retry" THEN sr_attempt + 1
                                                ELSE sr_attempt
    /\ UNCHANGED <<sr_retries, prog_vars, plan_vars>>

SendNext == SendRangeEmpty \/ SendIteration

SpecSend == SendInit /\ [][SendNext]_vars


(***************************************************************************)
(* SpecPlan: __calculate_row_count alone, lines 25-58.  It is called for   *)
(* one size, or for two sizes with the same unit one after the other,      *)
(* with the same num_columns.                                              *)
(*   PlanNumbers  the numbers of the sizes: 0 .. MaxSizeNum and numbers    *)
(*                next to 2^17 and to 2^53                                 *)
(*   Fractions    numbers with decimal places                              *)
(*   Suffixes     the five units, no unit, a unit in lower case and an     *)
(*                unknown unit                                             *)
(*   Malformed    sizes without digits and sizes with misplaced points     *)
(*                and blanks                                               *)
(***************************************************************************)
PlanNumbers ==
    {str(n) : n \in 0..MaxSizeNum}
      \cup {<<"1", "3", "1", "0", "7", "3">>,
            <<"1", "3", "1", "0", "7", "4">>,
            <<"9", "0", "0", "7", "1", "9", "9", "2", "5", "4", "7", "4",
              "0", "9", "9", "3">>,
            <<"9", "0", "0", "7", "1", "9", "9", "2", "5", "4", "7", "4",
              "1", "0", "0", "7">>}

Fractions == {<<"0", ".", "5">>, <<"1", ".", "5">>, <<"2", ".", "2", "5">>}

Units == DOMAIN size_multiplier

Suffixes == Units \cup {<<>>, <<"k", "b">>, <<"X", "B">>}

PlanSingles ==
    {n \o u : n \in PlanNumbers, u \in Suffixes}
      \cup {n \o u : n \in Fractions, u \in Units}
      \cup {<<" ", "5", "K", "B", " ">>}
      \cup Malformed

PlanPairs ==
    {<<n1 \o u, n2 \o u>> : n1 \in PlanNumbers \cup Fractions,
                            n2 \in PlanNumbers \cup Fractions, u \in Units}

PlanInit ==
    /\ plan_columns \in 0..MaxColumns
    /\ plan_sizes \in {<<s>> : s \in PlanSingles} \cup PlanPairs
    /\ plan_results = <<>>
    /\ CONNS = [e \in 1..1 |-> FALSE]
    /\ threads = 1
    /\ args = HarnessArgs
    /\ total_rows = 0
    /\ total_inserted = 0
    /\ batch_size = 0
    /\ main_pc = "harness"
    /\ clock = 0
    /\ iter_clock = 0
    /\ call = [t \in Threads |-> IdleCall]
    /\ subs = [t \in Threads |-> [i \in Tables |-> NoSub]]
    /\ owned = [t \in Threads |-> {}]
    /\ tally = [t \in Threads |-> NoTally]
    /\ received = 0
    /\ all2xx = TRUE
    /\ completed_rows = 0
    /\ SendIdle

\* the next call: __calculate_row_count(plan_columns, size)
PlanCall ==
    /\ Len(plan_results) < Len(plan_sizes)
    /\ plan_results' = Append(plan_results,
         __calculate_row_count(plan_columns, plan_sizes[Len(plan_results) + 1]))
    /\ UNCHANGED <<plan_columns, plan_sizes, prog_vars, sr_vars>>

SpecPlan == PlanInit /\ [][PlanCall]_vars


(***************************************************************************)
(* SpecMainPy: src/main.py, the variant of the program without threads.    *)
(* main (lines 91-152) calls its own insert_data (lines 59-88) inline, so  *)
(* thread 1 stands for the only thread and call[1] for the call.           *)
(* Positions of main_pc: "mp_start" (104), "mp_top" (125), "mp_call" (144, *)
(* while insert_data runs), "done" (152), "invalid_size", "crashed".       *)
(* Positions of call[1].pc: "mp_conn" (69-74), "mp_request" (76-81; idx is *)
(* the table of the loop of 77), "mp_status" (85), "done", "failed" (the   *)
(* exceptions of 83 and 88), "error" (response is read unbound at 85).     *)
(***************************************************************************)
MainPySizes == {<<"0">>, str(MaxRows), <<"1", "6", "B">>, <<"1", "X", "B">>}

MainPyInit ==
    /\ args \in [conn : 1..MaxConns, max_threads : {0},
                 num_columns : 1..MaxColumns, batch_size : 0..MaxBatch,
                 size : MainPySizes, hz : 0..MaxHz, run_time : {0, MaxRunTime},
                 column_as_table : BOOLEAN]
    /\ (args.size = <<"0">> => args.run_time > 0)
    /\ CONNS = <<>>
    /\ threads = 1
    /\ total_rows = 0
    /\ total_inserted = 0
    /\ batch_size = 0
    /\ main_pc = "mp_start"
    /\ clock = 0
    /\ iter_clock = 0
    /\ call = [t \in Threads |-> IdleCall]
    /\ subs = [t \in Threads |-> [i \in Tables |-> NoSub]]
    /\ owned = [t \in Threads |-> {}]
    /\ tally = [t \in Threads |-> NoTally]
    /\ received = 0
    /\ all2xx = TRUE
    /\ completed_rows = 0
    /\ SendIdle
    /\ PlanIdle

\* time.time() - start_time d ticks later; main.py has no iteration_start
mainpy_elapse(d) ==
    /\ clock' = IF args.run_time = 0 THEN clock
                ELSE Min(clock + d, args.run_time)
    /\ UNCHANGED iter_clock

\* line 116, in ticks
sleep_time ==
    IF args.hz > 0 THEN (args.batch_size * TicksPerSec) \div args.hz ELSE 0

\* lines 106-121
mainpy_startup ==
    /\ main_pc = "mp_start"
    /\ CONNS' = [e \in 1..args.conn |-> FALSE]
    /\ IF args.size # <<"0">>
       THEN LET result == __calculate_row_count(args.num_columns, args.size)
            IN IF Raised(result)
               THEN main_pc' = "invalid_size" /\ UNCHANGED total_rows
               ELSE main_pc' = "mp_top" /\ total_rows' = Value(result[2])
       ELSE main_pc' = "mp_top" /\ total_rows' = Inf
    /\ UNCHANGED <<args, threads, total_inserted, batch_size, time_vars, call,
                   subs, hist_vars, sr_vars, plan_vars>>

\* lines 125-144: the two tests that end the loop, the batch and the call
mainpy_top ==
    /\ main_pc = "mp_top"
    /\ IF stop_condition
       THEN /\ main_pc' = "done"
            /\ UNCHANGED <<batch_size, call, tally, owned>>
       ELSE /\ main_pc' = "mp_call"
            /\ batch_size' = next_batch_size
            /\ call' = [call EXCEPT ![1] =
                 [IdleCall EXCEPT !.pc = "mp_conn",
                                  !.dict = args.column_as_table,
                                  !.tables = IF args.column_as_table
                                                /\ next_batch_size > 0
                                             THEN args.num_columns ELSE 0,
                                  !.rows = next_batch_size]]
            /\ tally' = [tally EXCEPT ![1] = NoTally]
            /\ owned' = [owned EXCEPT ![1] = {}]
    /\ UNCHANGED <<CONNS, args, threads, total_rows, total_inserted, time_vars,
                   subs, received, all2xx, completed_rows, sr_vars, plan_vars>>

\* lines 69-74: a free endpoint is marked busy; a busy one is drawn again
mainpy_get_conn ==
    /\ call[1].pc = "mp_conn"
    /\ \E c \in Endpoints :
         IF CONNS[c]
         THEN UNCHANGED <<CONNS, call, owned>>
         ELSE /\ CONNS' = [CONNS EXCEPT ![c] = TRUE]
              /\ owned' = [owned EXCEPT ![1] = @ \cup {c}]
              /\ call' = [call EXCEPT ![1].conn = c, ![1].idx = 1,
                            ![1].pc = IF call[1].dict /\ call[1].tables = 0
                                      THEN "mp_status" ELSE "mp_request"]
    /\ UNCHANGED <<main_vars, time_vars, subs, tally, received, all2xx,
                   completed_rows, sr_vars, plan_vars>>

\* lines 76-83: one request, for the list or for the table idx of the
\* mapping; its answer replaces response; a network error raises at 83
mainpy_request ==
    /\ call[1].pc = "mp_request"
    /\ \E outcome \in Outcomes, d \in 1..MaxLatency :
         /\ call' = [call EXCEPT ![1] =
              IF outcome = NetErr
              THEN [@ EXCEPT !.pc = "failed", !.raised = TRUE, !.idx = 0]
              ELSE IF @.dict /\ @.idx < @.tables
              THEN [@ EXCEPT !.response = outcome, !.idx = @ + 1]
              ELSE [@ EXCEPT !.response = outcome, !.idx = 0,
                             !.pc = "mp_status"]]
         /\ mainpy_elapse(d)
         /\ Answered(1, outcome, call[1].rows, call[1].idx, ~Is2xx(outcome))
    /\ UNCHANGED <<CONNS, main_vars, subs, owned, completed_rows,
                   sr_vars, plan_vars>>

\* lines 85-88: the status of response, which is the last answer
mainpy_status ==
    /\ call[1].pc = "mp_status"
    /\ IF call[1].response = Unbound
       THEN /\ call' = [call EXCEPT ![1].pc = "error", ![1].raised = TRUE]
            /\ UNCHANGED <<CONNS, owned, completed_rows>>
       ELSE IF Is2xx(call[1].response)
       THEN /\ CONNS' = [CONNS EXCEPT ![call[1].conn] = FALSE]
            /\ owned' = [owned EXCEPT ![1] = @ \ {call[1].conn}]
            /\ completed_rows' = completed_rows + call[1].rows
            /\ call' = [call EXCEPT ![1].pc = "done"]
       ELSE /\ call' = [call EXCEPT ![1].pc = "failed", ![1].raised = TRUE]
            /\ UNCHANGED <<CONNS, owned, completed_rows>>
    /\ UNCHANGED <<main_vars, time_vars, subs, tally, received, all2xx,
                   sr_vars, plan_vars>>

\* lines 144-149: the call returns, the rows are counted and main sleeps;
\* or the exception of the call leaves main
mainpy_count ==
    /\ main_pc = "mp_call"
    /\ call[1].pc \in {"done", "failed", "error"}
    /\ IF call[1].pc = "done"
       THEN /\ total_inserted' = total_inserted + batch_size
            /\ main_pc' = "mp_top"
            /\ call' = [call EXCEPT ![1] = IdleCall]
            /\ mainpy_elapse(sleep_time)
       ELSE /\ main_pc' = "crashed"
            /\ UNCHANGED <<total_inserted, call, time_vars>>
    /\ UNCHANGED <<CONNS, args, threads, total_rows, batch_size, subs,
                   hist_vars, sr_vars, plan_vars>>

MainPyNext ==
    \/ mainpy_startup
    \/ mainpy_top
    \/ mainpy_get_conn
    \/ mainpy_request
    \/ mainpy_status
    \/ mainpy_count

SpecMainPy == MainPyInit /\ [][MainPyNext]_vars


(***************************************************************************)
(* Properties of send_request (SpecSend).                                  *)
(***************************************************************************)
All5xx == \A i \in 1..Len(sr_requests) : Is5xx(sr_requests[i])

SendEnded == sr_state \in {"returned", "raised"}

\* C5: when every answer is a 5xx, send_request with retries R issues
\* exactly R requests and then raises; it never returns normally and never
\* issues a request number R + 1.
C5_RetryExhaustion ==
    All5xx =>
      /\ Len(sr_requests) <= sr_retries
      /\ sr_state # "returned"
      /\ (SendEnded => sr_state = "raised" /\ Len(sr_requests) = sr_retries)
      /\ (Len(sr_requests) = sr_retries /\ sr_retries > 0 => sr_state = "raised")

C5_Witness ==
    /\ sr_retries = DefaultRetries
    /\ sr_requests = <<503, 503, 503>>
    /\ sr_state = "raised"

\* C6: when the answers are 5xx, 5xx, 2xx in this order (503, 503, 200),
\* send_request returns after exactly 3 requests, having slept 2 seconds
\* after the first attempt and 4 seconds after the second, and not after
\* the third.
C6_RetrySuccessBackoff ==
    /\ (Len(sr_requests) = 1 /\ Is5xx(sr_requests[1]) /\ sr_retries > 1
          => sr_state = "try" /\ sr_waits = <<2>>)
    /\ (Len(sr_requests) = 2 /\ Is5xx(sr_requests[1]) /\ Is5xx(sr_requests[2])
          /\ sr_retries > 2
          => sr_state = "try" /\ sr_waits = <<2, 4>>)
    /\ (Len(sr_requests) >= 3 /\ Is5xx(sr_requests[1]) /\ Is5xx(sr_requests[2])
          /\ Is2xx(sr_requests[3])
          => sr_state = "returned" /\ Len(sr_requests) = 3 /\ sr_waits = <<2, 4>>)

C6_Witness ==
    /\ sr_requests = <<503, 503, 200>>
    /\ sr_state = "returned"
    /\ sr_waits = <<2, 4>>

\* C7: when the first answer is a status outside 2xx and outside 5xx (404),
\* send_request raises at once: one request, no sleep, no further attempt.
C7_TerminalNoRetry ==
    (Len(sr_requests) >= 1 /\ sr_requests[1] # NetErr
       /\ ~Is2xx(sr_requests[1]) /\ ~Is5xx(sr_requests[1]))
      => (sr_state = "raised" /\ Len(sr_requests) = 1 /\ sr_waits = <<>>)


(***************************************************************************)
(* Properties of insert_data and of main.                                  *)
(***************************************************************************)
\* thread t is between the return of a get_conn and the release_conn that
\* follows it, with endpoint e
Holds(t, e) ==
    /\ call[t].pc \in {"p1_send", "p1_release", "p2_request", "p2_release"}
    /\ call[t].conn = e

CallEnded(t) == call[t].pc \in {"done", "failed", "error"}

\* C1 (SpecPool): no two callers of insert_data hold the same endpoint at
\* the same time.
C1_MutualExclusion ==
    \A e \in Endpoints : \A t1, t2 \in Threads :
        Holds(t1, e) /\ Holds(t2, e) => t1 = t2

\* C2: when a call of insert_data has ended, by a return or by an exception,
\* for a list payload and for a mapping of tables, every endpoint it marked
\* busy has been cleared by it.
C2_ScopedAcquisition ==
    \A t \in Threads : CallEnded(t) => owned[t] = {}

\* C4: at the end of a run in which every request was answered 2xx, the
\* reported total equals the rows the endpoints received in the requests
\* answered 2xx, and a batch that was delivered was accepted in exactly one
\* request (one per table for a mapping of tables).
C4_ExactAccounting ==
    /\ (main_pc = "done" /\ all2xx => total_inserted = received)
    /\ \A t \in Threads :
         call[t].pc = "done" /\ call[t].rows > 0 /\ all2xx =>
           tally[t].ok = IF call[t].dict THEN call[t].tables ELSE 1

\* C8: a call of insert_data for a list payload that got at most one 5xx
\* answer and 2xx answers otherwise returns normally.
C8_TransientNeverSurfaces ==
    \A t \in Threads :
        (CallEnded(t) /\ ~call[t].dict /\ call[t].rows > 0
           /\ tally[t].s5 <= 1 /\ ~tally[t].bad)
          => call[t].pc = "done"

\* C9: a call of insert_data that fails to deliver its batch (retries
\* exhausted, or a terminal status) does not end the run: the exception of
\* the task does not leave main, which goes on to its next iteration.
C9_FailureDoesNotHaltRun ==
    [][(main_pc = "wait"
          /\ (\E t \in Threads : call[t].pc = "failed" /\ call[t].rows > 0)
          /\ (\A t \in Threads : call[t].pc # "error"))
         => main_pc' # "crashed"]_vars

\* C10: total_inserted never exceeds the rows of the batches whose call of
\* insert_data has returned normally.
C10_CountsOnlyCompleted == total_inserted <= completed_rows


InGetConn(t) == call[t].pc \in {"gc_pick", "gc_check", "gc_set"}

\* C3 (FairSpec): under a fair scheduler every call of get_conn returns:
\* a thread that is inside get_conn leaves it eventually.
C3_AcquireReturns ==
    \A t \in Threads : InGetConn(t) ~> ~InGetConn(t)



(***************************************************************************)
(* Properties of __calculate_row_count (SpecPlan).                         *)
(***************************************************************************)
\* the decimal digits of a number
RECURSIVE DecimalDigits(_)
DecimalDigits(v) ==
    IF v = <<>> THEN <<>>
    ELSE Append(DecimalDigits(DivMod(v, 10).q), Digits[DivMod(v, 10).r + 1])

Decimal(v) == IF v = <<>> THEN <<"0">> ELSE DecimalDigits(v)

\* floor(n * 2^shift / (8 * C + 8)) in exact arithmetic
ExactCeiling(n, shift, C) == DivMod(ShiftLeft(n, shift), 8 * C + 8).q

\* the size is the digits n followed by the unit u
IsNumberWithUnit(size, k, u) ==
    /\ k >= 1
    /\ k + Len(u) = Len(size)
    /\ isdigit(SubSeq(size, 1, k))
    /\ SubSeq(size, k + 1, Len(size)) = u

\* C17: for C >= 0 columns and a size n<unit> with an integer n >= 0 and a
\* unit of B, KB, MB, GB, TB, __calculate_row_count returns the columns
\* column_1 .. column_C and the ceiling floor(n * multiplier / (8 * C + 8));
\* for a size that is a number alone it returns that number.
C17_PlannerFormula ==
    \A i \in 1..Len(plan_results) :
        LET size == plan_sizes[i]
            result == plan_results[i]
        IN /\ isdigit(size) =>
                /\ ~Raised(result)
                /\ Len(result[1]) = plan_columns
                /\ Decimal(result[2]) = size
           /\ \A u \in Units : \A k \in 1..Len(size) :
                IsNumberWithUnit(size, k, u) =>
                  /\ ~Raised(result)
                  /\ Len(result[1]) = plan_columns
                  /\ result[2] = ExactCeiling(int(SubSeq(size, 1, k)),
                                              size_multiplier[u], plan_columns)

\* the number of a size that matched, multiplied by 10^k
Scaled(match, k) ==
    MulAdd(int(match.whole \o match.frac), Pow10(k - Len(match.frac)), 0)

RowCountRun ==
    /\ args.run_time = 0
    /\ args.batch_size >= 1
    /\ ~args.column_as_table

\* C11 (FairSpec): in row-count mode with a batch size >= 1, list payloads
\* and only 2xx answers, no call of insert_data fails and no exception
\* leaves main's loop, the summary reports a total equal to the row ceiling,
\* and the run reaches the summary.
C11_RowCountMode ==
    /\ [](RowCountRun /\ all2xx =>
            /\ main_pc # "crashed"
            /\ \A t \in Threads : call[t].pc \notin {"failed", "error"}
            /\ (main_pc = "done" => total_inserted = total_rows))
    /\ <>(RowCountRun => main_pc \in {"done", "invalid_size"} \/ ~all2xx)

\* the command line of a run in duration mode without a rate limit
DurationRun ==
    /\ args.run_time > 0
    /\ args.hz = 0
    /\ args.batch_size >= 1

\* C12 (FairSpec): in duration mode without a rate limit, with a batch size
\* >= 1 and only 2xx answers, the loop ends at the first test of line 232
\* made when the run time has passed, the run reaches the summary, and the
\* summary reports a total > 0.
C12_DurationMode ==
    /\ [][DurationRun /\ main_pc = "top" /\ clock >= args.run_time
            => main_pc' = "done"]_vars
    /\ [](DurationRun /\ all2xx /\ main_pc = "done" => total_inserted > 0)
    /\ <>(DurationRun => main_pc \in {"done", "invalid_size"} \/ ~all2xx)

\* C13: the loop ends only at its top (line 232), and when the summary is
\* reached after that no call of insert_data and no task of a call is
\* still running.
C13_NoAbandonedRequest ==
    /\ [][main_pc' = "done" /\ main_pc # "done" => main_pc = "top"]_vars
    /\ [](main_pc = "done" =>
            \A t \in Threads :
               /\ call[t].pc = "idle"
               /\ \A i \in Tables : subs[t][i].state = "none")

C13_Witness ==
    /\ main_pc = "done"
    /\ total_inserted > 0
    /\ received > 0

\* C14: when a call of insert_data for a mapping of two or more tables
\* fails, a request has been sent for every table of the mapping.
C14_TablesIndependent ==
    \A t \in Threads :
        (call[t].pc = "failed" /\ call[t].dict /\ call[t].tables >= 2)
          => tally[t].tried = 1..call[t].tables

\* C15: a call of insert_data for a mapping of tables in which the delivery
\* of some table has ended without a 2xx answer does not return normally.
C15_AggregateFailure ==
    \A t \in Threads :
       call[t].dict /\ tally[t].lost => call[t].pc # "done"

\* C16: in a run with a run time every batch that is generated has
\* args.batch_size rows.
C16_NoCeilingInDurationMode ==
    (args.run_time > 0 /\ main_pc = "submit") => batch_size = args.batch_size

\* the size has no digit
NoDigits(size) == \A i \in 1..Len(size) : ~IsDigit(size[i])

\* the letters at the end of the size
UnitOf(size) ==
    LET others == {i \in 1..Len(size) : ~IsLetter(size[i])}
        last == IF others = {} THEN 0
                ELSE CHOOSE i \in others : \A j \in others : j <= i
    IN SubSeq(size, last + 1, Len(size))

UnknownUnit(size) == UnitOf(size) # <<>> /\ upper(UnitOf(size)) \notin Units

\* C19: with a --size that has no digits or has an unknown unit, the run
\* ends with the ValueError of __calculate_row_count, and then no endpoint
\* is or was marked busy, no request was sent and total_inserted is 0.
C19_InvalidSizeFatal ==
    ((NoDigits(args.size) \/ UnknownUnit(args.size)) /\ main_pc # "start") =>
       /\ main_pc = "invalid_size"
       /\ \A e \in DOMAIN CONNS : ~CONNS[e]
       /\ \A t \in Threads :
            call[t].pc = "idle" /\ owned[t] = {} /\ tally[t] = NoTally
       /\ received = 0
       /\ all2xx
       /\ total_inserted = 0

C19_Witness ==
    /\ main_pc = "invalid_size"
    /\ UnknownUnit(args.size)
    /\ DOMAIN CONNS # {}

\* C20: after line 202 the number of workers is at most min(M, 2 * E) for
\* --max-threads M > 0 and at most 2 * E for M = 0, with E endpoints; only
\* that many workers run a task, and the number does not change.
C20_WorkerBound ==
    /\ [](main_pc # "start" =>
            /\ threads <= IF args.max_threads > 0
                          THEN Min(args.max_threads, 2 * args.conn)
                          ELSE 2 * args.conn
            /\ \A t \in Threads : call[t].pc # "idle" => t <= threads)
    /\ [][main_pc # "start" => threads' = threads]_vars

C20_Witness ==
    /\ main_pc = "wait"
    /\ args.max_threads = 1
    /\ args.conn > 1
    /\ threads = 1
    /\ call[1].pc # "idle"



\* the rows of one pacing cycle at the rate args.hz, below the row ceiling
rows_per_interval ==
    IF total_rows # Inf THEN Min(args.hz, total_rows - total_inserted)
                        ELSE args.hz

\* C21: with --hz > 0 the batch of an iteration has hz rows (as far as the
\* row ceiling allows), whatever --batch-size is.
C21_RateBatchSizing ==
    [][main_pc = "top" /\ main_pc' = "submit" /\ args.hz > 0
         => batch_size' = rows_per_interval]_vars


\* C22: the endpoints are the ones of the connection list from line 200 on,
\* and the number of endpoints marked busy is at most their number E, also
\* with more callers than endpoints.
C22_PoolSizeBound ==
    /\ (main_pc # "start" => DOMAIN CONNS = 1..args.conn)
    /\ Cardinality({e \in DOMAIN CONNS : CONNS[e]}) <= args.conn

C22_Witness ==
    /\ threads > args.conn
    /\ \A e \in DOMAIN CONNS : CONNS[e]
    /\ \E t \in Threads : call[t].pc = "gc_pick"
    /\ \E t \in Threads : call[t].pc = "p1_send"


\* a run in row-count mode with --batch-size 0 and a row ceiling > 0
AutoRun ==
    /\ args.batch_size = 0
    /\ args.run_time = 0
    /\ total_rows > 0

\* C23: with --batch-size 0 in row-count mode, the batch of every iteration
\* has a positive number of rows.
C23_AutoBatchSize ==
    AutoRun /\ main_pc \in {"submit", "count", "wait", "pace"} => batch_size > 0


\* C24: in an iteration with --hz > 0, lines 262-263 end with the iteration
\* one second old when it was younger, and without a sleep when it was not;
\* no exception leaves them.
C24_GovernorSleep ==
    [][main_pc = "pace" /\ args.hz > 0
         => /\ main_pc' = "top"
            /\ iter_clock' = Max(iter_clock, TicksPerSec)]_vars


\* the worker threads that run a call of insert_data
Running == {t \in Threads : call[t].pc \notin {"idle", "done", "failed", "error"}}

\* C25: at most one task submitted by main's loop is running, and a task is
\* submitted only when none is running.
C25_OneBatchOutstanding ==
    /\ [](Cardinality(Running) <= 1)
    /\ [][main_pc = "submit" /\ main_pc' = "count" => Running = {}]_vars

C25_Witness ==
    /\ threads > 1
    /\ Cardinality(Running) = 1
    /\ total_inserted > batch_size
    /\ batch_size > 0
    /\ main_pc = "wait"


\* C26: with a finite row ceiling, every batch has min(--batch-size, rows
\* below the ceiling) rows and total_inserted stays between 0 and the
\* ceiling, in row-count mode and in duration mode.
C26_CeilingNotOvershot ==
    /\ [](main_pc \notin {"start", "mp_start", "invalid_size"} /\ total_rows # Inf
            => 0 <= total_inserted /\ total_inserted <= total_rows)
    /\ [][total_rows # Inf /\ main_pc \in {"top", "mp_top"}
              /\ main_pc' \in {"submit", "mp_call"}
            => batch_size' = Min(args.batch_size, total_rows - total_inserted)]_vars
    /\ [][total_rows # Inf /\ total_inserted' # total_inserted
            => total_inserted' = total_inserted
                                   + Min(args.batch_size, total_rows - total_inserted)]_vars

C26_Witness ==
    /\ total_rows # Inf
    /\ total_inserted = total_rows
    /\ 0 < batch_size
    /\ batch_size < args.batch_size
    /\ total_inserted > batch_size
    /\ main_pc = "wait"


\* C27: whatever the answers are, send_request issues at most `retries`
\* requests; a call that has not ended can take a step; a call that
\* returned got a 2xx answer to its last request.
C27_BoundedAttempts ==
    /\ Len(sr_requests) <= sr_retries
    /\ (sr_state = "try" => ENABLED SendNext)
    /\ (sr_state = "returned" =>
          /\ Len(sr_requests) >= 1
          /\ Is2xx(sr_requests[Len(sr_requests)]))

C27_Witness ==
    /\ sr_retries = DefaultRetries
    /\ sr_requests = <<NetErr, 404, 200>>
    /\ sr_state = "returned"

=============================================================================
